---- MODULE Spec2Model ----
(***************************************************************************)
(* Verification model of rls/common/agent.py (class Agent) together with   *)
(* the replay-buffer components it configures (RingStore and               *)
(* NStepAccumulator, described in the design document).                    *)
(*                                                                         *)
(* Three specifications share the variables of this module:                *)
(*   Spec      - Agent construction and the operations of a built Agent    *)
(*   SpecRing  - a RingStore under arbitrary put sequences                 *)
(*   SpecNStep - an NStepAccumulator under arbitrary push sequences        *)
(***************************************************************************)
EXTENDS Integers, Sequences, FiniteSets, TLC

VARIABLES
    pc,          \* position of the Agent: "new", "env", "brains", "ready", "failed"
    env,         \* the environment made by make_env (env_args + self.env)
    policy,      \* result of get_model_info: policy_mode and policy_type
    algo_cfg,    \* the algorithm's configuration as get_model_info returned it
    algo_args,   \* self.algo_args
    buffer_args, \* self.buffer_args
    model_args,  \* self.model_args
    train_args,  \* self.train_args
    brain_i,     \* loop index i of the single-agent Unity loop
    gb_calls,    \* the configurations handed to get_buffer, in call order
    buffers,     \* the values get_buffer returned, in call order
    models,      \* the models constructed (self.model / self.models), in order
    brain_cfgs,  \* per brain: the private copies (_bargs, _margs, _aargs) after the iteration
    error,       \* exception that ended construction, or "none"
    op_trace,    \* calls made by the last operation on the built Agent, in order
    op_error,    \* exception the last operation propagated, or "none"
    ring,        \* RingStore: [capacity, size, cursor, slots]
    ring_puts,   \* history: every item put into the RingStore, in order
    nstep,       \* NStepAccumulator: [n, windows]
    ns_hist      \* history per agent: pushes and emissions of the current episode

agent_vars == <<pc, env, policy, algo_cfg, algo_args, buffer_args, model_args, train_args,
                brain_i, gb_calls, buffers, models, brain_cfgs,
                error, op_trace, op_error>>
ring_vars == <<ring, ring_puts>>
nstep_vars == <<nstep, ns_hist>>
vars == <<agent_vars, ring_vars, nstep_vars>>

----------------------------------------------------------------------------
(* Bounds of the model *)

MaxBrains == 3
MaxN == 2
MaxCap == 3
MaxPuts == 6
MaxWin == 3
MaxEpisode == 4

----------------------------------------------------------------------------
(* Python values and dictionaries *)

\* A key that a dictionary does not hold, in an integer-valued field.
Absent == 0 - 1
\* A gamma that a dictionary does not hold (gammas are rationals <<num, den>>).
NoGamma == <<0, 0>>

\* Python values of the flags use_priority / n_step: a missing key or a bool.
Missing == [k |-> "missing", v |-> 0]
PyFalse == [k |-> "bool", v |-> 0]
PyTrue == [k |-> "bool", v |-> 1]

\* dict.get(key, default)
Get(x, default) == IF x.k = "missing" THEN default ELSE x
\* dict.get(key, 0) on an integer-valued field
GetInt(x, default) == IF x = Absent THEN default ELSE x
\* truth value of a Python bool or int
Truthy(x) == x.v # 0
\* x == True (True == 1 in Python)
EqTrue(x) == x.k # "missing" /\ x.v = 1

RECURSIVE IntPow(_, _)
IntPow(b, e) == IF e = 0 THEN 1 ELSE b * IntPow(b, e - 1)

\* pow(g, n) on a rational g = <<num, den>> and an integer n >= 0
Pow(g, n) == <<IntPow(g[1], n), IntPow(g[2], n)>>

\* the characters of the buffer type names
Chars(t) ==
    CASE t = "ER" -> <<"E", "R">>
      [] t = "PER" -> <<"P", "E", "R">>
      [] t = "NstepER" -> <<"N", "s", "t", "e", "p", "E", "R">>
      [] t = "NstepPER" -> <<"N", "s", "t", "e", "p", "P", "E", "R">>
      [] t = "EpisodeER" -> <<"E", "p", "i", "s", "o", "d", "e", "E", "R">>
      [] t = "None" -> <<"N", "o", "n", "e">>
      [] OTHER -> <<>>

\* needle in hay (Python substring test on strings)
In(needle, hay) ==
    \E i \in 1..(Len(hay) - Len(needle) + 1) :
        SubSeq(hay, i, i + Len(needle) - 1) = needle

\* NeedsAgentsNum without the test for 'Episode'
NeedsAgentsNum_NstepOnly(t) ==
    In(<<"N", "s", "t", "e", "p">>, Chars(t))

\* 'Nstep' in type or 'Episode' in type
NeedsAgentsNum(t) ==
    \/ In(<<"N", "s", "t", "e", "p">>, Chars(t))
    \/ In(<<"E", "p", "i", "s", "o", "d", "e">>, Chars(t))

BufferTypes == {"ER", "PER", "NstepER", "NstepPER", "EpisodeER"}

----------------------------------------------------------------------------
(* Inputs of Agent.__init__ *)

\* the configured discounts, as rationals <<num, den>>
Gammas == {<<9, 10>>}

\* the names of the brains of a Unity environment
BrainNames == <<"brain0", "brain1", "brain2", "brain3", "brain4">>

\* env.brain_agents of a Unity environment with b brains: brain i runs i agents
BrainAgents(b) == [i \in 1..b |-> i]

\* make_env(env_args): the environment types and their shapes
Envs ==
    {[type |-> "gym", env_num |-> 3, brain_agents |-> <<>>]}
    \cup {[type |-> "unity", env_num |-> 3, brain_agents |-> BrainAgents(b)] :
             b \in 1..MaxBrains}

\* get_model_info(algo): _policy_mode and _policy_type
Policies == [mode : {"off-policy", "on-policy"}, type : {"single", "multi"}]

\* the configuration of one buffer type inside buffer_args
SubCfg(n) ==
    [n |-> n, gamma |-> NoGamma, agents_num |-> Absent, max_train_step |-> Absent,
     burn_in_time_step |-> Absent, train_time_step |-> Absent]

\* buffer_args as passed to the constructor: one entry per buffer type; only the
\* n-step types carry a window length n
BufferArgs0(nER, nPER) ==
    [type |-> "unset", batch_size |-> Absent, buffer_size |-> Absent,
     sub |-> [t \in BufferTypes |->
                 IF t = "NstepER" THEN SubCfg(nER)
                 ELSE IF t = "NstepPER" THEN SubCfg(nPER)
                 ELSE SubCfg(Absent)]]

\* the algorithm's default configuration returned by get_model_info
AlgoArgs0 ==
    [use_rnn : {Missing},
     use_priority : {Missing, PyTrue},
     n_step : {Missing, PyFalse, PyTrue},
     gamma : Gammas,
     batch_size : {Absent, 2},
     buffer_size : {Absent, 3},
     episode_batch_size : {Absent, 2},
     episode_buffer_size : {1},
     burn_in_time_step : {4},
     train_time_step : {6},
     max_train_step : {Absent},
     seed : {Absent},
     base_dir : {<<>>}]

ModelArgs0 == [use_rnn : {PyFalse, PyTrue}, seed : {3}, base_dir : {<<>>}]

TrainArgs0 ==
    [name : {"name"}, base_dir : {<<"base">>}, policy_mode : {"unset"},
     pre_fill_steps : {5}, max_train_step : {7}]

AgentInit ==
    /\ pc = "new"
    /\ env \in Envs
    /\ policy \in Policies
    /\ algo_cfg \in AlgoArgs0
    /\ algo_args = algo_cfg
    /\ \E nER \in 0..MaxN : buffer_args = BufferArgs0(nER, MaxN - nER)
    /\ model_args \in ModelArgs0
    /\ train_args \in TrainArgs0
    /\ brain_i = 0
    /\ gb_calls = <<>>
    /\ buffers = <<>>
    /\ models = <<>>
    /\ brain_cfgs = <<>>
    /\ error = "none"
    /\ op_trace = <<>>
    /\ op_error = "none"

\* the RingStore and the NStepAccumulator are not part of this specification
RingIdle ==
    /\ ring = [capacity |-> 1, size |-> 0, cursor |-> 0, slots |-> <<0>>]
    /\ ring_puts = <<>>

NStepIdle ==
    /\ nstep = [n |-> 1, windows |-> <<>>]
    /\ ns_hist = [agent |-> 0, done |-> FALSE, pre_len |-> 0, out |-> <<>>,
                  pushes |-> <<>>, emitted |-> <<>>, ended |-> <<>>]

Init == AgentInit /\ RingIdle /\ NStepIdle

----------------------------------------------------------------------------
(* Agent.__init__, lines 85-140: configuration and buffer selection *)

\* BufferType with the recurrent test made after the priority / n-step tests
BufferType_RnnLast(mode, aargs) ==
    IF mode = "off-policy"
    THEN LET _use_priority == Get(aargs.use_priority, PyFalse)
             _n_step == Get(aargs.n_step, PyFalse)
         IN  IF Truthy(_use_priority) /\ Truthy(_n_step) THEN "NstepPER"
             ELSE IF Truthy(_use_priority) THEN "PER"
             ELSE IF Truthy(_n_step) THEN "NstepER"
             ELSE IF EqTrue(aargs.use_rnn) THEN "EpisodeER"
             ELSE "ER"
    ELSE "None"

\* BufferType without the final else branch: the type keeps its initial value
BufferType_NoElse(mode, aargs) ==
    IF mode = "off-policy"
    THEN IF EqTrue(aargs.use_rnn)
         THEN "EpisodeER"
         ELSE LET _use_priority == Get(aargs.use_priority, PyFalse)
                  _n_step == Get(aargs.n_step, PyFalse)
              IN  IF Truthy(_use_priority) /\ Truthy(_n_step) THEN "NstepPER"
                  ELSE IF Truthy(_use_priority) THEN "PER"
                  ELSE IF Truthy(_n_step) THEN "NstepER"
                  ELSE "unset"
    ELSE "None"

\* the branching of lines 110-139 that assigns buffer_args['type']
BufferType(mode, aargs) ==
    IF mode = "off-policy"
    THEN IF EqTrue(aargs.use_rnn)
         THEN "EpisodeER"
         ELSE LET _use_priority == Get(aargs.use_priority, PyFalse)
                  _n_step == Get(aargs.n_step, PyFalse)
              IN  IF Truthy(_use_priority) /\ Truthy(_n_step) THEN "NstepPER"
                  ELSE IF Truthy(_use_priority) THEN "PER"
                  ELSE IF Truthy(_n_step) THEN "NstepER"
                  ELSE "ER"
    ELSE "None"

\* BufferSizes reading the episode keys in the non-recurrent branch
BufferSizes_EpisodeKeys(aargs, t) ==
    [batch_size |-> GetInt(aargs.episode_batch_size, 0),
     buffer_size |-> GetInt(aargs.episode_buffer_size, 0)]

\* lines 113-114 and 119-120: batch_size and buffer_size of the buffer of type t
BufferSizes(aargs, t) ==
    IF t = "EpisodeER"
    THEN [batch_size |-> GetInt(aargs.episode_batch_size, 0),
          buffer_size |-> GetInt(aargs.episode_buffer_size, 0)]
    ELSE [batch_size |-> GetInt(aargs.batch_size, 0),
          buffer_size |-> GetInt(aargs.buffer_size, 0)]

\* buffer_args after lines 110-139
SelectBuffer(bargs, aargs, targs, mode) ==
    LET t == BufferType(mode, aargs)
        sizes == BufferSizes(aargs, t)
        typed == [bargs EXCEPT !.type = t]
        sized == [typed EXCEPT !.batch_size = sizes.batch_size,
                               !.buffer_size = sizes.buffer_size]
    IN  CASE t = "EpisodeER" ->
               [sized EXCEPT
                  !.sub["EpisodeER"].burn_in_time_step = GetInt(aargs.burn_in_time_step, 0),
                  !.sub["EpisodeER"].train_time_step = GetInt(aargs.train_time_step, 0)]
          [] t = "NstepPER" ->
               [sized EXCEPT
                  !.sub["NstepPER"].max_train_step = targs.max_train_step,
                  !.sub["NstepPER"].gamma = aargs.gamma]
          [] t = "PER" ->
               [sized EXCEPT !.sub["PER"].max_train_step = targs.max_train_step]
          [] t = "NstepER" ->
               [sized EXCEPT !.sub["NstepER"].gamma = aargs.gamma]
          [] t = "ER" -> sized
          [] OTHER -> typed

\* NstepGamma reading the window length of NstepER in both n-step branches
NstepGamma_WrongN(bargs, aargs, mode) ==
    LET t == BufferType(mode, aargs)
    IN  IF t \in {"NstepER", "NstepPER"}
        THEN Pow(aargs.gamma, bargs.sub["NstepER"].n)
        ELSE aargs.gamma

\* algo_args['gamma'] after lines 128 and 135
NstepGamma(bargs, aargs, mode) ==
    LET t == BufferType(mode, aargs)
    IN  IF t \in {"NstepER", "NstepPER"}
        THEN Pow(aargs.gamma, bargs.sub[t].n)
        ELSE aargs.gamma

\* os.path.join(a, b) on paths kept as sequences of components
PathJoin(a, b) == Append(a, b)

\* lines 85-140 of Agent.__init__
Configure ==
    /\ pc = "new"
    /\ LET margs == [model_args EXCEPT
                       !.base_dir = PathJoin(train_args.base_dir, train_args.name)]
           aargs == [algo_args EXCEPT !.use_rnn = margs.use_rnn]
       IN  /\ model_args' = margs
           /\ buffer_args' = SelectBuffer(buffer_args, aargs, train_args, policy.mode)
           /\ algo_args' = [aargs EXCEPT !.gamma = NstepGamma(buffer_args, aargs, policy.mode)]
           /\ train_args' = [train_args EXCEPT
                               !.policy_mode = policy.mode,
                               !.pre_fill_steps =
                                   IF policy.mode = "off-policy" THEN @ ELSE 0]
    /\ pc' = "env"
    /\ UNCHANGED <<env, policy, algo_cfg, brain_i, gb_calls, buffers, models, brain_cfgs, error,
                   op_trace, op_error, ring_vars, nstep_vars>>

----------------------------------------------------------------------------
(* get_buffer (rls/parse/parse_buffer.py) and the buffer constructors *)

\* the value get_buffer returns for the type 'None' (on-policy: no replay buffer)
NoBuffer ==
    [type |-> "None", capacity |-> Absent, batch_size |-> Absent, n |-> Absent,
     gamma |-> NoGamma, agents_num |-> Absent]

\* the configuration is rejected: n < 1 for an n-step variant, or capacity < batch_size
InvalidBufferConfig(bargs) ==
    /\ bargs.type \in BufferTypes
    /\ \/ bargs.type \in {"NstepER", "NstepPER"} /\ bargs.sub[bargs.type].n < 1
       \/ bargs.buffer_size < bargs.batch_size

\* the buffer get_buffer(bargs) constructs from a valid configuration
GetBuffer(bargs) ==
    IF bargs.type \in BufferTypes
    THEN [type |-> bargs.type, capacity |-> bargs.buffer_size,
          batch_size |-> bargs.batch_size, n |-> bargs.sub[bargs.type].n,
          gamma |-> bargs.sub[bargs.type].gamma,
          agents_num |-> bargs.sub[bargs.type].agents_num]
    ELSE NoBuffer

----------------------------------------------------------------------------
(* Agent.__init__, lines 142-272: buffers and models *)

\* SetAgentsNum falling back to the one-step variant for a single agent
SetAgentsNum_Retype(bargs, num) ==
    IF NeedsAgentsNum(bargs.type)
    THEN IF num = 1 /\ bargs.type = "NstepER"
         THEN [bargs EXCEPT !.type = "ER"]
         ELSE [bargs EXCEPT !.sub[bargs.type].agents_num = num]
    ELSE bargs

\* lines 152-153, 195-196, 237-238: agents_num of the selected type's configuration
SetAgentsNum(bargs, num) ==
    IF NeedsAgentsNum(bargs.type)
    THEN [bargs EXCEPT !.sub[bargs.type].agents_num = num]
    ELSE bargs

\* Model(**aargs) followed by model.set_buffer(buffer)
NewModel(aargs, buffer) ==
    [gamma |-> aargs.gamma, seed |-> aargs.seed, base_dir |-> aargs.base_dir,
     max_train_step |-> aargs.max_train_step, buffer |-> buffer]

\* algo_args.update({...}) of lines 158-168, 199-210 and 242-252
UpdateAlgo(aargs, margs, targs) ==
    [aargs EXCEPT !.max_train_step = targs.max_train_step,
                  !.base_dir = margs.base_dir,
                  !.seed = margs.seed]

\* lines 151-172 (gym) and 195-214 (multi-agent Unity): one buffer and one model,
\* built from self.buffer_args and self.algo_args themselves
BuildOne ==
    LET bargs == SetAgentsNum(buffer_args, env.env_num)
        aargs == UpdateAlgo(algo_args, model_args, train_args)
    IN  /\ buffer_args' = bargs
        /\ gb_calls' = Append(gb_calls, bargs)
        /\ IF InvalidBufferConfig(bargs)
           THEN /\ pc' = "failed"
                /\ error' = "ConfigurationError"
                /\ UNCHANGED <<buffers, models, algo_args>>
           ELSE /\ pc' = "ready"
                /\ error' = "none"
                /\ buffers' = Append(buffers, GetBuffer(bargs))
                /\ algo_args' = aargs
                /\ models' = Append(models, NewModel(aargs, GetBuffer(bargs)))

\* lines 142-188
BuildGym ==
    /\ pc = "env"
    /\ env.type = "gym"
    /\ BuildOne
    /\ UNCHANGED <<env, policy, algo_cfg, model_args, train_args, brain_i, brain_cfgs,
                   op_trace, op_error, ring_vars, nstep_vars>>

\* lines 191-228
BuildMaUnity ==
    /\ pc = "env"
    /\ env.type # "gym"
    /\ policy.type = "multi"
    /\ IF Len(env.brain_agents) > 1
       THEN BuildOne
       ELSE /\ pc' = "failed"
            /\ error' = "AssertionError"
            /\ UNCHANGED <<buffer_args, gb_calls, buffers, models, algo_args>>
    /\ UNCHANGED <<env, policy, algo_cfg, model_args, train_args, brain_i, brain_cfgs,
                   op_trace, op_error, ring_vars, nstep_vars>>

\* BrainModelArgs with the seed offsets accumulating over the earlier brains
BrainModelArgs_Cumulative(margs, i) ==
    [margs EXCEPT !.base_dir = PathJoin(margs.base_dir, BrainNames[i + 1]),
                  !.seed = margs.seed + ((i * (i + 1)) \div 2) * 10]

\* _margs after lines 233-241 of iteration i: a copy of self.model_args
BrainModelArgs(margs, i) ==
    [margs EXCEPT !.base_dir = PathJoin(margs.base_dir, BrainNames[i + 1]),
                  !.seed = margs.seed + i * 10]

\* lines 230-272: one iteration of the loop over env.fixed_brain_names
BuildBrain ==
    /\ pc \in {"env", "brains"}
    /\ env.type # "gym"
    /\ policy.type # "multi"
    /\ brain_i < Len(env.brain_agents)
    /\ LET i == brain_i
           _bargs == SetAgentsNum(buffer_args, env.brain_agents[i + 1])
           _margs == BrainModelArgs(model_args, i)
           _aargs == UpdateAlgo(algo_args, _margs, train_args)
       IN  /\ gb_calls' = Append(gb_calls, _bargs)
           /\ IF InvalidBufferConfig(_bargs)
              THEN /\ pc' = "failed"
                   /\ error' = "ConfigurationError"
                   /\ UNCHANGED <<buffers, models, brain_cfgs, brain_i>>
              ELSE /\ pc' = IF i + 1 < Len(env.brain_agents) THEN "brains" ELSE "ready"
                   /\ error' = "none"
                   /\ brain_i' = i + 1
                   /\ buffers' = Append(buffers, GetBuffer(_bargs))
                   /\ models' = Append(models, NewModel(_aargs, GetBuffer(_bargs)))
                   /\ brain_cfgs' = Append(brain_cfgs,
                                           [bargs |-> _bargs, margs |-> _margs, aargs |-> _aargs])
    /\ UNCHANGED <<env, policy, algo_cfg, buffer_args, model_args, algo_args, train_args,
                   op_trace, op_error, ring_vars, nstep_vars>>

----------------------------------------------------------------------------
(* Operations of a constructed Agent, lines 275-419 *)

\* the branch of train / evaluate taken: env_args['type'] and multi_agents_training
Kind == IF env.type = "gym" THEN "gym"
        ELSE IF policy.type = "multi" THEN "ma_unity" ELSE "unity"

PrefillFn(kind) ==
    CASE kind = "gym" -> "gym_no_op"
      [] kind = "ma_unity" -> "ma_unity_no_op"
      [] OTHER -> "unity_no_op"

TrainFn(kind) ==
    CASE kind = "gym" -> "gym_train"
      [] kind = "ma_unity" -> "ma_unity_train"
      [] OTHER -> "unity_train"

InferenceFn(kind) ==
    CASE kind = "gym" -> "gym_inference"
      [] kind = "ma_unity" -> "ma_unity_inference"
      [] OTHER -> "unity_inference"

\* one call of an external function: its invocation and how it ended
Called(fn, arg, ok) ==
    <<[fn |-> fn, ev |-> "call", arg |-> arg],
      [fn |-> fn, ev |-> IF ok THEN "return" ELSE "raise", arg |-> arg]>>

\* the finally clause of train: close() on the models 1..k in order, then env.close();
\* the close numbered fail (env.close being k + 1) raises and ends the clause, 0: none does
RECURSIVE Closes(_, _, _)
Closes(j, k, fail) ==
    IF j > k
    THEN Called("env.close", 0, fail # k + 1)
    ELSE IF j = fail
         THEN Called("model.close", j, FALSE)
         ELSE Called("model.close", j, TRUE) \o Closes(j + 1, k, fail)

\* TryBody going on to the training call after the prefill call raised
TryBody_Swallow(kind, pre_fill_steps, prefillOk, trainOk) ==
    Called(PrefillFn(kind), pre_fill_steps, prefillOk)
    \o Called(TrainFn(kind), 0, trainOk)

\* the try body of train: the prefill call, then the training call
TryBody(kind, pre_fill_steps, prefillOk, trainOk) ==
    Called(PrefillFn(kind), pre_fill_steps, prefillOk)
    \o (IF prefillOk THEN Called(TrainFn(kind), 0, trainOk) ELSE <<>>)

\* the calls one execution of train() makes, lines 287-388
TrainTrace(kind, pre_fill_steps, k, prefillOk, trainOk, fail) ==
    TryBody(kind, pre_fill_steps, prefillOk, trainOk) \o Closes(1, k, fail)

\* the exception train() propagates: the last one raised
Raised(trace) ==
    LET raises == SelectSeq(trace, LAMBDA e : e.ev = "raise")
    IN  IF raises = <<>> THEN "none" ELSE raises[Len(raises)].fn

\* lines 287-388
Train ==
    /\ pc = "ready"
    /\ \E prefillOk \in BOOLEAN, trainOk \in BOOLEAN, fail \in 0..(Len(models) + 1) :
          /\ prefillOk \/ trainOk
          /\ op_trace' = TrainTrace(Kind, train_args.pre_fill_steps, Len(models),
                                    prefillOk, trainOk, fail)
          /\ op_error' = Raised(op_trace')
    /\ UNCHANGED <<pc, env, policy, algo_cfg, algo_args, buffer_args, model_args, train_args,
                   brain_i, gb_calls, buffers, models, brain_cfgs, error,
                   ring_vars, nstep_vars>>

\* lines 284-285: self.train()
Call ==
    /\ pc = "ready"
    /\ Train

\* lines 390-409
Evaluate ==
    /\ pc = "ready"
    /\ \E ok \in BOOLEAN :
          /\ op_trace' = Called(InferenceFn(Kind), 0, ok)
          /\ op_error' = Raised(op_trace')
    /\ UNCHANGED <<pc, env, policy, algo_cfg, algo_args, buffer_args, model_args, train_args,
                   brain_i, gb_calls, buffers, models, brain_cfgs, error,
                   ring_vars, nstep_vars>>

\* lines 411-419: ApexWorker, ApexLearner and ApexBuffer are not defined in the module
Run ==
    /\ pc = "ready"
    /\ \E mode \in {"worker", "learner", "buffer", "other"} :
          op_error' = IF mode = "other" THEN "Exception" ELSE "NameError"
    /\ op_trace' = <<>>
    /\ UNCHANGED <<pc, env, policy, algo_cfg, algo_args, buffer_args, model_args, train_args,
                   brain_i, gb_calls, buffers, models, brain_cfgs, error,
                   ring_vars, nstep_vars>>

\* lines 275-282
Pwi ==
    /\ pc = "ready"
    /\ op_trace' = <<>>
    /\ op_error' = "none"
    /\ UNCHANGED <<pc, env, policy, algo_cfg, algo_args, buffer_args, model_args, train_args,
                   brain_i, gb_calls, buffers, models, brain_cfgs, error,
                   ring_vars, nstep_vars>>

Next ==
    \/ Configure
    \/ BuildGym
    \/ BuildMaUnity
    \/ BuildBrain
    \/ Train
    \/ Call
    \/ Evaluate
    \/ Run
    \/ Pwi

Spec == Init /\ [][Next]_vars

----------------------------------------------------------------------------
(* RingStore, design section 4.1 *)

\* the transitions put into the store
Items == {1, 2}

\* the Agent is not part of the specifications of the buffer components
AgentIdle ==
    /\ pc = "off"
    /\ env = [type |-> "gym", env_num |-> 3, brain_agents |-> <<>>]
    /\ policy = [mode |-> "off-policy", type |-> "single"]
    /\ algo_cfg = <<>>
    /\ algo_args = <<>>
    /\ buffer_args = BufferArgs0(Absent, Absent)
    /\ model_args = <<>>
    /\ train_args = <<>>
    /\ brain_i = 0
    /\ gb_calls = <<>>
    /\ buffers = <<>>
    /\ models = <<>>
    /\ brain_cfgs = <<>>
    /\ error = "none"
    /\ op_trace = <<>>
    /\ op_error = "none"

\* a store of the given capacity, empty (0 marks a slot never written)
NewRing(capacity) ==
    [capacity |-> capacity, size |-> 0, cursor |-> 0, slots |-> [i \in 1..capacity |-> 0]]

\* RingPutTo keeping the cursor at the last slot once the store is full
RingPutTo_NoWrap(r, item) ==
    [r EXCEPT !.slots[r.cursor + 1] = item,
              !.cursor = IF r.cursor + 1 < r.capacity THEN r.cursor + 1 ELSE r.cursor,
              !.size = IF r.size < r.capacity THEN r.size + 1 ELSE r.capacity]

\* put(transition): write at the cursor, advance it modulo capacity, size saturates
RingPutTo(r, item) ==
    [r EXCEPT !.slots[r.cursor + 1] = item,
              !.cursor = (r.cursor + 1) % r.capacity,
              !.size = IF r.size < r.capacity THEN r.size + 1 ELSE r.capacity]

\* the stored items, oldest first
RingContents(r) ==
    IF r.size < r.capacity
    THEN SubSeq(r.slots, 1, r.size)
    ELSE SubSeq(r.slots, r.cursor + 1, r.capacity) \o SubSeq(r.slots, 1, r.cursor)

RingInit ==
    /\ \E c \in 1..MaxCap : ring = NewRing(c)
    /\ ring_puts = <<>>

RingPut ==
    /\ Len(ring_puts) < MaxPuts
    /\ \E item \in Items :
          /\ ring' = RingPutTo(ring, item)
          /\ ring_puts' = Append(ring_puts, item)
    /\ UNCHANGED <<agent_vars, nstep_vars>>

InitRing == AgentIdle /\ RingInit /\ NStepIdle

NextRing == RingPut

SpecRing == InitRing /\ [][NextRing]_vars

----------------------------------------------------------------------------
(* NStepAccumulator, design section 4.4 *)

\* the agent ids feeding the accumulator
NsAgents == {1, 2}

\* the rewards of the pushed transitions
Rewards == {1, 2}

\* the discounted sum of the rewards of a window, gamma = 9/10, as <<num, den>>
RECURSIVE FoldReturn(_)
FoldReturn(w) ==
    IF Len(w) = 0 THEN <<0, 1>>
    ELSE LET rest == FoldReturn(Tail(w))
         IN  <<Head(w).r * rest[2] * 10 + 9 * rest[1], rest[2] * 10>>

\* the folded transition of the oldest entry of window w: the discounted sum of the
\* pending rewards, bootstrapping from the newest entry
Fold(w) ==
    [first |-> Head(w).step, span |-> Len(w), boot |-> w[Len(w)].step,
     ret |-> FoldReturn(w), done |-> w[Len(w)].done]

\* draining window w: one folded transition per entry, with ever shorter windows
RECURSIVE Drain(_)
Drain(w) == IF Len(w) = 0 THEN <<>> ELSE <<Fold(w)>> \o Drain(Tail(w))

\* PushWindow clearing the window at a terminal push after a single emission
PushWindow_ClearOnDone(n, w, tr) ==
    LET appended == Append(w, tr)
    IN  IF tr.done
        THEN [window |-> <<>>, out |-> <<Fold(appended)>>]
        ELSE IF Len(appended) = n
             THEN [window |-> Tail(appended), out |-> <<Fold(appended)>>]
             ELSE [window |-> appended, out |-> <<>>]

\* push(agent_id, transition): the window afterwards and the transitions emitted
PushWindow(n, w, tr) ==
    LET appended == Append(w, tr)
    IN  IF tr.done
        THEN [window |-> <<>>, out |-> Drain(appended)]
        ELSE IF Len(appended) = n
             THEN [window |-> Tail(appended), out |-> <<Fold(appended)>>]
             ELSE [window |-> appended, out |-> <<>>]

NStepInit ==
    /\ \E n \in 1..MaxWin : nstep = [n |-> n, windows |-> [a \in NsAgents |-> <<>>]]
    /\ ns_hist = [agent |-> 0, done |-> FALSE, pre_len |-> 0, out |-> <<>>,
                  pushes |-> [a \in NsAgents |-> 0], emitted |-> [a \in NsAgents |-> 0],
                  ended |-> [a \in NsAgents |-> FALSE]]

\* one push for agent a; a push after a terminal one starts the agent's next episode
NStepPush ==
    \E a \in NsAgents, r \in Rewards, d \in BOOLEAN :
        LET before == IF ns_hist.ended[a] THEN 0 ELSE ns_hist.pushes[a]
            sofar == IF ns_hist.ended[a] THEN 0 ELSE ns_hist.emitted[a]
            tr == [r |-> r, done |-> d, step |-> before + 1]
            res == PushWindow(nstep.n, nstep.windows[a], tr)
        IN  /\ before < MaxEpisode
            /\ ~d => before + 1 < MaxEpisode
            /\ nstep' = [nstep EXCEPT !.windows[a] = res.window]
            /\ ns_hist' = [agent |-> a, done |-> d, pre_len |-> Len(nstep.windows[a]),
                           out |-> res.out,
                           pushes |-> [ns_hist.pushes EXCEPT ![a] = before + 1],
                           emitted |-> [ns_hist.emitted EXCEPT ![a] = sofar + Len(res.out)],
                           ended |-> [ns_hist.ended EXCEPT ![a] = d]]
            /\ UNCHANGED <<agent_vars, ring_vars>>

InitNStep == AgentIdle /\ RingIdle /\ NStepInit

NextNStep == NStepPush

SpecNStep == InitNStep /\ [][NextNStep]_vars

----------------------------------------------------------------------------
(* Properties of Agent construction *)

\* construction has passed the buffer selection of lines 109-140
Selected == pc \in {"env", "brains", "ready", "failed"}

\* the flags as the claims read them: a missing key counts as false
UseRnn == model_args.use_rnn = PyTrue
UsePriority == algo_cfg.use_priority = PyTrue
NStep == algo_cfg.n_step = PyTrue

\* the buffer type the selection table prescribes for the inputs of this construction
TableType ==
    CASE policy.mode # "off-policy" -> "None"
      [] policy.mode = "off-policy" /\ UseRnn -> "EpisodeER"
      [] policy.mode = "off-policy" /\ ~UseRnn /\ UsePriority /\ NStep -> "NstepPER"
      [] policy.mode = "off-policy" /\ ~UseRnn /\ UsePriority /\ ~NStep -> "PER"
      [] policy.mode = "off-policy" /\ ~UseRnn /\ ~UsePriority /\ NStep -> "NstepER"
      [] policy.mode = "off-policy" /\ ~UseRnn /\ ~UsePriority /\ ~NStep -> "ER"

\* C1: once construction has selected the buffer, buffer_args['type'] is the value the
\* table gives for (policy mode, use_rnn, use_priority, n_step): EpisodeER for off-policy
\* with use_rnn, else NstepPER / PER / NstepER / ER by use_priority and n_step, and
\* 'None' for any other policy mode; the environment, the sizes, gamma, n and the
\* policy type have no influence.
C1_TypeIsTableOfFlags == Selected => buffer_args.type = TableType

\* C1 witness: a recurrent off-policy construction with use_priority and n_step set
\* has been built with an EpisodeER buffer.
C1_Witness ==
    /\ pc = "ready"
    /\ policy.mode = "off-policy"
    /\ UseRnn /\ UsePriority /\ NStep
    /\ Len(buffers) = 1
    /\ buffers[1].type = "EpisodeER"

\* C2 as stated: every type handed to get_buffer is one of the five buffer types.
C2_Original == \A i \in 1..Len(gb_calls) : gb_calls[i].type \in BufferTypes

\* C2 amended: every type handed to get_buffer is one of the five buffer types or
\* 'None', and it is 'None' exactly when the policy mode is not off-policy.
C2_TypeInClosedSetOrNone ==
    \A i \in 1..Len(gb_calls) :
        /\ gb_calls[i].type \in BufferTypes \cup {"None"}
        /\ gb_calls[i].type = "None" <=> policy.mode # "off-policy"

\* C2 witness: an on-policy construction has called get_buffer with the type 'None',
\* and the Agent has been built.
C2_Witness ==
    /\ pc = "ready"
    /\ policy.mode = "on-policy"
    /\ Len(gb_calls) >= 1
    /\ gb_calls[1].type = "None"

\* C3: buffer_args['type'] is unassigned before the selection and no get_buffer call
\* precedes it; from the selection on it never changes, whatever operation runs; and
\* every configuration handed to get_buffer, and every buffer built, has that type.
C3_TypeFixedForLifetime ==
    /\ [](pc = "new" => buffer_args.type = "unset" /\ gb_calls = <<>>)
    /\ [](Selected =>
            /\ buffer_args.type # "unset"
            /\ \A i \in 1..Len(gb_calls) : gb_calls[i].type = buffer_args.type
            /\ \A i \in 1..Len(buffers) : buffers[i].type = buffer_args.type)
    /\ [][Selected => buffer_args'.type = buffer_args.type]_vars

\* C3 witness: a single-agent Unity Agent with two n-step buffers has run train().
C3_Witness ==
    /\ pc = "ready"
    /\ Len(buffers) = 2
    /\ buffers[1].type = "NstepER"
    /\ buffers[2].type = "NstepER"
    /\ op_trace # <<>>
    /\ op_trace[1].fn = "unity_no_op"

\* g to the power n, for a rational g = <<num, den>>
Power(g, n) == <<g[1] ^ n, g[2] ^ n>>

\* C4: for NstepER and NstepPER the buffer configuration holds the configured gamma g
\* and algo_args and every model hold g^n, n being the window length of the selected
\* type, however many models are built; for every other type algo_args and every model
\* hold g and no buffer configuration holds a gamma.
C4_GammaPowerOnce ==
    Selected =>
        LET t == buffer_args.type
            g == algo_cfg.gamma
        IN  IF t \in {"NstepER", "NstepPER"}
            THEN /\ buffer_args.sub[t].gamma = g
                 /\ \A i \in 1..Len(gb_calls) : gb_calls[i].sub[t].gamma = g
                 /\ \A i \in 1..Len(buffers) : buffers[i].gamma = g
                 /\ algo_args.gamma = Power(g, buffer_args.sub[t].n)
                 /\ \A i \in 1..Len(models) :
                       models[i].gamma = Power(g, buffer_args.sub[t].n)
            ELSE /\ \A u \in BufferTypes : buffer_args.sub[u].gamma = NoGamma
                 /\ \A i \in 1..Len(gb_calls), u \in BufferTypes :
                       gb_calls[i].sub[u].gamma = NoGamma
                 /\ algo_args.gamma = g
                 /\ \A i \in 1..Len(models) : models[i].gamma = g

\* C4 witness: three models have been built for NstepPER with n = 2.
C4_Witness ==
    /\ pc = "ready"
    /\ buffer_args.type = "NstepPER"
    /\ buffer_args.sub["NstepPER"].n = 2
    /\ Len(models) = 3
    /\ models[3].gamma = <<81, 100>>

\* the number of parallel agents feeding the buffer of the i-th get_buffer call
FeedingAgents(i) ==
    IF env.type = "gym" \/ policy.type = "multi"
    THEN env.env_num
    ELSE env.brain_agents[i]

\* C5: every configuration handed to get_buffer with a type in {NstepER, NstepPER,
\* EpisodeER} holds agents_num for that type, equal to env_num (gym, multi-agent Unity)
\* or to brain_agents[i] (buffer of brain i, single-agent Unity); for ER, PER and
\* 'None' no agents_num is written anywhere.
C5_AgentsNumBeforeGetBuffer ==
    \A i \in 1..Len(gb_calls) :
        LET c == gb_calls[i]
        IN  IF c.type \in {"NstepER", "NstepPER", "EpisodeER"}
            THEN c.sub[c.type].agents_num = FeedingAgents(i)
            ELSE /\ \A u \in BufferTypes : c.sub[u].agents_num = Absent
                 /\ \A u \in BufferTypes : buffer_args.sub[u].agents_num = Absent

\* C5 witness: the second brain's EpisodeER buffer has been requested with the two
\* agents of that brain.
C5_Witness ==
    /\ Len(gb_calls) >= 2
    /\ gb_calls[2].type = "EpisodeER"
    /\ gb_calls[2].sub["EpisodeER"].agents_num = 2
    /\ env.env_num = 3

----------------------------------------------------------------------------
(* Properties of train() *)

\* the positions of the events of function fn with ending ev in the last trace
Events(fn, ev) == {j \in 1..Len(op_trace) : op_trace[j].fn = fn /\ op_trace[j].ev = ev}

\* the last operation was train(): its trace opens with a prefill call
TrainRan ==
    /\ op_trace # <<>>
    /\ op_trace[1].fn \in {"gym_no_op", "ma_unity_no_op", "unity_no_op"}

\* the prefill and the training function of the environment kind of this Agent
KindPrefill ==
    CASE env.type = "gym" -> "gym_no_op"
      [] env.type # "gym" /\ policy.type = "multi" -> "ma_unity_no_op"
      [] env.type # "gym" /\ policy.type # "multi" -> "unity_no_op"

KindTrain ==
    CASE env.type = "gym" -> "gym_train"
      [] env.type # "gym" /\ policy.type = "multi" -> "ma_unity_train"
      [] env.type # "gym" /\ policy.type # "multi" -> "unity_train"

\* C6: an execution of train() first invokes the prefill function of its environment
\* kind with the configured pre_fill_steps; the training function of that kind is
\* invoked at most once and only after the prefill call has returned; if the prefill
\* call raises, no training function is invoked; no function of another kind is called.
C6_PrefillBeforeTrain ==
    TrainRan =>
        /\ op_trace[1] = [fn |-> KindPrefill, ev |-> "call",
                          arg |-> train_args.pre_fill_steps]
        /\ Cardinality(Events(KindPrefill, "call")) = 1
        /\ Cardinality(Events(KindTrain, "call")) <= 1
        /\ \A j \in Events(KindTrain, "call") :
              \E i \in Events(KindPrefill, "return") : i < j
        /\ Events(KindPrefill, "raise") # {} => Events(KindTrain, "call") = {}
        /\ \A j \in 1..Len(op_trace) :
              op_trace[j].fn \in {KindPrefill, KindTrain, "model.close", "env.close"}

\* C6 witness: train() of a multi-agent Unity Agent has called ma_unity_train after
\* ma_unity_no_op returned.
C6_Witness ==
    /\ TrainRan
    /\ Events("ma_unity_no_op", "return") = {2}
    /\ Events("ma_unity_train", "call") = {3}

----------------------------------------------------------------------------
(* Properties of the buffer configuration *)

\* the capacity and the batch size the algorithm configuration asks for (0 when the
\* key is omitted): the episode keys for a recurrent algorithm, the plain keys otherwise
ConfiguredCapacity ==
    LET v == IF UseRnn THEN algo_cfg.episode_buffer_size ELSE algo_cfg.buffer_size
    IN  IF v = Absent THEN 0 ELSE v

ConfiguredBatch ==
    LET v == IF UseRnn THEN algo_cfg.episode_batch_size ELSE algo_cfg.batch_size
    IN  IF v = Absent THEN 0 ELSE v

\* the buffer configuration of an off-policy construction is invalid
ConfiguredInvalid ==
    /\ policy.mode = "off-policy"
    /\ \/ TableType \in {"NstepER", "NstepPER"} /\ buffer_args.sub[TableType].n < 1
       \/ ConfiguredCapacity < ConfiguredBatch

\* construction has passed the buffer and model building of lines 142-272
Built == pc \in {"brains", "ready", "failed"}

\* C7 as stated: an invalid buffer configuration ends construction with
\* ConfigurationError and no buffer.
C7_Original ==
    Built /\ ConfiguredInvalid =>
        pc = "failed" /\ error = "ConfigurationError" /\ buffers = <<>>

\* the brain-count assertion of the multi-agent Unity branch fails
BrainAssertFails == env.type # "gym" /\ policy.type = "multi" /\ Len(env.brain_agents) <= 1

\* C7 amended: an invalid buffer configuration ends construction with no buffer and no
\* model, at the first get_buffer call with ConfigurationError, unless the multi-agent
\* Unity branch has already failed its brain-count assertion with AssertionError
\* before calling get_buffer.
C7_InvalidConfigRejected ==
    Built /\ ConfiguredInvalid =>
        /\ pc = "failed"
        /\ buffers = <<>>
        /\ models = <<>>
        /\ IF BrainAssertFails
           THEN error = "AssertionError" /\ gb_calls = <<>>
           ELSE error = "ConfigurationError" /\ Len(gb_calls) = 1

\* C7 witness: a construction whose configuration omits buffer_size but asks for a
\* batch size of 2 has failed with ConfigurationError at its get_buffer call.
C7_Witness ==
    /\ pc = "failed"
    /\ error = "ConfigurationError"
    /\ algo_cfg.buffer_size = Absent
    /\ algo_cfg.batch_size = 2
    /\ ~UseRnn
    /\ Len(gb_calls) = 1
    /\ buffers = <<>>

\* the environment is a single-agent Unity environment
SingleUnity == env.type # "gym" /\ policy.type # "multi"

\* C10: in single-agent Unity mode an iteration of the brain loop leaves
\* self.buffer_args, self.model_args, self.algo_args and the configurations of the
\* earlier brains unchanged; brain i (counted from 0) gets the seed seed + 10 * i, the
\* base_dir base_dir/<brain name> and its own agents_num; and a completed construction
\* has built exactly one buffer and one model per brain, each model holding the buffer,
\* the seed and the base_dir of its brain.
C10_PrivateBrainConfigs ==
    /\ [][SingleUnity /\ pc \in {"env", "brains"} =>
            /\ buffer_args' = buffer_args
            /\ model_args' = model_args
            /\ algo_args' = algo_args
            /\ SubSeq(brain_cfgs', 1, Len(brain_cfgs)) = brain_cfgs]_vars
    /\ [](SingleUnity /\ Selected =>
            /\ Len(buffers) = Len(brain_cfgs)
            /\ Len(models) = Len(brain_cfgs)
            /\ pc = "ready" => Len(brain_cfgs) = Len(env.brain_agents)
            /\ \A j \in 1..Len(brain_cfgs) :
                  /\ brain_cfgs[j].margs.seed = model_args.seed + 10 * (j - 1)
                  /\ brain_cfgs[j].margs.base_dir = Append(model_args.base_dir, BrainNames[j])
                  /\ brain_cfgs[j].aargs.seed = model_args.seed + 10 * (j - 1)
                  /\ brain_cfgs[j].aargs.base_dir = brain_cfgs[j].margs.base_dir
                  /\ models[j].seed = model_args.seed + 10 * (j - 1)
                  /\ models[j].base_dir = brain_cfgs[j].margs.base_dir
                  /\ models[j].buffer = buffers[j]
                  /\ \A u \in BufferTypes :
                        /\ buffer_args.sub[u].agents_num = Absent
                        /\ brain_cfgs[j].bargs.sub[u].agents_num \in
                              {Absent, env.brain_agents[j]})

\* C10 witness: the construction for three brains is complete, the third brain has
\* the seed 23 and its own agents_num 3.
C10_Witness ==
    /\ SingleUnity
    /\ pc = "ready"
    /\ Len(models) = 3
    /\ models[3].seed = 23
    /\ brain_cfgs[3].bargs.sub["NstepER"].agents_num = 3
    /\ model_args.seed = 3

----------------------------------------------------------------------------
(* Properties of the RingStore *)

Min(a, b) == IF a < b THEN a ELSE b

\* the last m elements of sequence q
LastOf(q, m) == SubSeq(q, Len(q) - m + 1, Len(q))

\* C8: after k puts into a store of capacity C the size is min(k, C), the write
\* cursor is k mod C, and the store holds the min(k, C) most recently put items, the
\* oldest of them at the slot the next put overwrites.
C8_RingHoldsMostRecent ==
    LET k == Len(ring_puts)
        C == ring.capacity
    IN  /\ ring.size = Min(k, C)
        /\ ring.cursor = k % C
        /\ RingContents(ring) = LastOf(ring_puts, Min(k, C))
        /\ \A j \in 1..Min(k, C) : ring.slots[((k - j) % C) + 1] = ring_puts[k - j + 1]

\* C8 witness: a store of capacity 3 has taken 5 puts and has wrapped around.
C8_Witness ==
    /\ ring.capacity = 3
    /\ Len(ring_puts) = 5
    /\ ring.cursor = 2
    /\ ring_puts[1] # ring_puts[4]

----------------------------------------------------------------------------
(* Properties of the NStepAccumulator *)

\* C9: no window is ever longer than n; a non-terminal push emits exactly one folded
\* transition if it brought the window to length n and none otherwise; a terminal push
\* emits one folded transition per pending entry, the pushed one included, and empties
\* the window; when an episode ends, as many folded transitions have been emitted as
\* transitions were pushed in it; and a push changes only the window of its agent.
C9_NStepEmissions ==
    /\ [](\A a \in NsAgents : Len(nstep.windows[a]) <= nstep.n)
    /\ [](ns_hist.agent # 0 /\ ~ns_hist.done =>
            Len(ns_hist.out) = IF ns_hist.pre_len + 1 = nstep.n THEN 1 ELSE 0)
    /\ [](ns_hist.agent # 0 /\ ns_hist.done =>
            /\ Len(ns_hist.out) = ns_hist.pre_len + 1
            /\ nstep.windows[ns_hist.agent] = <<>>)
    /\ [](\A a \in NsAgents : ns_hist.ended[a] => ns_hist.emitted[a] = ns_hist.pushes[a])
    /\ [][\A a \in NsAgents :
            a # ns_hist'.agent => nstep'.windows[a] = nstep.windows[a]]_vars

\* C9 witness: with n = 3 a terminal push has drained a window of three entries while
\* the other agent's window holds two pending entries.
C9_Witness ==
    /\ nstep.n = 3
    /\ ns_hist.agent = 1
    /\ ns_hist.done
    /\ Len(ns_hist.out) = 3
    /\ ns_hist.pushes[1] = 4
    /\ Len(nstep.windows[2]) = 2

----------------------------------------------------------------------------
(* Properties of train(): the finally clause *)

\* the positions in the last trace where close() of the j-th model is invoked
ModelCloseCalls(j) ==
    {p \in Events("model.close", "call") : op_trace[p].arg = j}

\* the positions in the last trace of the events of the prefill and training calls
TryEvents == {p \in 1..Len(op_trace) : op_trace[p].fn \in {KindPrefill, KindTrain}}

\* C11: an execution of train() invokes close() exactly once on every model, in the
\* order of self.models, and then env.close() exactly once, whether the prefill or the
\* training call returned or raised; every close comes after the prefill and training
\* calls have ended, none before the prefill call starts.
C11_Original ==
    TrainRan =>
        /\ \A j \in 1..Len(models) : Cardinality(ModelCloseCalls(j)) = 1
        /\ Cardinality(Events("env.close", "call")) = 1
        /\ \A j \in 1..Len(models), k \in 1..Len(models) :
              j < k => \A p \in ModelCloseCalls(j), q \in ModelCloseCalls(k) : p < q
        /\ \A p \in Events("model.close", "call"), q \in Events("env.close", "call") : p < q
        /\ \A p \in Events("model.close", "call") \cup Events("env.close", "call") :
              \A q \in TryEvents : q < p

====
